---- MODULE Spec2Model ----
(***************************************************************************)
(* A model of the geocoin game of src/src/main.ts and src/src/geocache.ts: *)
(* the cache table of mementos, the inventory, the player position, the    *)
(* movement history, the browser's localStorage, and the rectangles drawn  *)
(* on the map with the live cache objects their popups act on.             *)
(*                                                                         *)
(* Conventions.                                                            *)
(*  - A string is a sequence of one-character strings, so that template    *)
(*    literals, split and Number are computed and not assumed.             *)
(*  - A JavaScript number is [num |-> n] (n an integer), NaN is            *)
(*    [nan |-> TRUE]; null and undefined are records of their own.         *)
(*  - A memento is the JSON text toMemento writes, character by character; *)
(*    fromMemento parses it.  An item of localStorage is represented by    *)
(*    the value JSON.parse gives back for it (a list of coin ids, a table  *)
(*    of mementos, a location).                                            *)
(*  - The coins of a cache are a sequence of coins; a value of the coins    *)
(*    property that is not an array (undefined, a number, ...) is the      *)
(*    sequence of the one record [notArray |-> value].                     *)
(*  - Coordinates are counted from OAKES_CLASSROOM in units of which a     *)
(*    tile has TILE_WIDTH, so that a point need not be the corner of a     *)
(*    tile.                                                                *)
(*  - The identity of a Cell object of the board is its (i, j) with the    *)
(*    number of Cell objects allocated for (i, j) up to it.                *)
(***************************************************************************)
EXTENDS Integers, Sequences, FiniteSets, TLC

(***************************************************************************)
(* Bounds of the model.                                                    *)
(***************************************************************************)
\* Radius of the neighbourhood, in tiles (8 in src/src/main.ts:14; the model
\* explores a smaller neighbourhood).
NEIGHBORHOOD_RADIUS == 1
\* Moves, page reloads, resets and deposits of a coin explored in one run,
\* together.
MaxEvents == 3

(***************************************************************************)
(* Program constants.                                                      *)
(***************************************************************************)
\* luck values are counted in 1/LuckScale: luck(key) = n stands for n/100.
LuckScale == 100
\* 0.1, in 1/LuckScale.
CACHE_SPAWN_PROBABILITY == 10
MAX_COINS == 5
MIN_COINS == 1
MAX_INVENTORY_SIZE == 10
\* 1e-4 degrees, in the unit of the coordinates.
TILE_WIDTH == 2
\* The multiplier of the oracle's string hash.
LuckMultiplier == 7
\* The oracles (seeds of the hash) the model is run with.
Seeds == {24}
\* The oracles the generation of coins is run with: thirty seeds, of four
\* salts; under some of them no cell around the origin has a cache.
GenSeeds == {13 * n : n \in 0..29}

VARIABLES
    seed,             \* the oracle behind luck (fixed for a run)
    playerLocation,   \* [lat, lng], from OAKES_CLASSROOM
    inventory,        \* sequence of coin id strings
    cacheData,        \* key string -> memento
    movementHistory,  \* sequence of locations
    localStorage,     \* item name -> stored value; absent items are not in the domain
    rectangles,       \* cell -> the live cache object bound to its popup
    knownCells,       \* the board's table: key string -> the Cell object (its number)
    events,           \* moves, reloads, resets and deposits of a coin so far
    generated,        \* history: key -> times coins were generated since the last reset
    erased,           \* history: keys whose coins were generated before a reset
    lastCoins,        \* history: cell -> coins left by the last collect or deposit
    otherTab          \* the globals of the pages open in other tabs (none or one)

vars == <<seed, playerLocation, inventory, cacheData, movementHistory,
          localStorage, rectangles, knownCells, events, generated, erased, lastCoins,
          otherTab>>

(***************************************************************************)
(* Strings and JavaScript values.                                          *)
(***************************************************************************)
DigitChars == <<"0", "1", "2", "3", "4", "5", "6", "7", "8", "9">>

\* The value of each digit character.
DigitValues == [ch \in {DigitChars[d] : d \in 1..10} |->
                   (CHOOSE d \in 1..10 : DigitChars[d] = ch) - 1]

IsDigit(ch) == ch \in DOMAIN DigitValues

DigitValue(ch) == DigitValues[ch]

RECURSIVE NatToStr(_)
NatToStr(n) ==
    IF n < 10 THEN <<DigitChars[n + 1]>>
    ELSE NatToStr(n \div 10) \o <<DigitChars[(n % 10) + 1]>>

IntToStr(n) == IF n < 0 THEN <<"-">> \o NatToStr(-n) ELSE NatToStr(n)

Num(n) == [num |-> n]
NaN == [nan |-> TRUE]
Null == [null |-> TRUE]
Undefined == [undefined |-> TRUE]

IsNum(v) == "num" \in DOMAIN v

\* `${v}` of a template literal.
ToStr(v) ==
    IF IsNum(v) THEN IntToStr(v.num)
    ELSE IF v = NaN THEN <<"N", "a", "N">>
    ELSE IF v = Null THEN <<"n", "u", "l", "l">>
    ELSE <<"u", "n", "d", "e", "f", "i", "n", "e", "d">>

RECURSIVE DigitsValue(_)
DigitsValue(s) ==
    IF s = <<>> THEN 0
    ELSE 10 * DigitsValue(SubSeq(s, 1, Len(s) - 1)) + DigitValue(s[Len(s)])

AllDigits(s) == s # <<>> /\ \A n \in 1..Len(s) : IsDigit(s[n])

\* Number(s) on the strings the program builds: the empty string is 0, an
\* optionally signed run of digits is its value, anything else is NaN.
Number(s) ==
    IF s = <<>> THEN Num(0)
    ELSE IF AllDigits(s) THEN Num(DigitsValue(s))
    ELSE IF s[1] = "-" /\ AllDigits(Tail(s)) THEN Num(0 - DigitsValue(Tail(s)))
    ELSE NaN

\* s.split(/[:#]/): the fields between the separators.
RECURSIVE Split(_)
Split(s) ==
    IF \A n \in 1..Len(s) : s[n] \notin {":", "#"} THEN <<s>>
    ELSE LET p == CHOOSE n \in 1..Len(s) :
                      /\ s[n] \in {":", "#"}
                      /\ \A m \in 1..(n - 1) : s[m] \notin {":", "#"}
         IN  <<SubSeq(s, 1, p - 1)>> \o Split(SubSeq(s, p + 1, Len(s)))

\* F applied to the value of x: one statement after another.
Then(x, F(_)) == CHOOSE y \in {F(v) : v \in {x}} : TRUE

EmptyMap == [x \in {} |-> 0]

Count(f, k) == IF k \in DOMAIN f THEN f[k] ELSE 0

(***************************************************************************)
(* JSON.stringify and JSON.parse, on the texts a memento can be.  A parsed *)
(* value is a number, [null |-> TRUE], [bool |-> b], [str |-> s],          *)
(* [arr |-> sequence of values] or [obj |-> key -> value].                 *)
(***************************************************************************)
Quote == "\""

IsArr(v) == "arr" \in DOMAIN v

IsObj(v) == "obj" \in DOMAIN v

\* JSON.stringify of a number-valued property: NaN and null are written null.
JSONStringifyNumber(v) ==
    IF IsNum(v) THEN IntToStr(v.num) ELSE <<"n", "u", "l", "l">>

RECURSIVE JoinComma(_)
JoinComma(texts) ==
    IF texts = <<>> THEN <<>>
    ELSE IF Len(texts) = 1 THEN texts[1]
    ELSE texts[1] \o <<",">> \o JoinComma(Tail(texts))

\* "name":value, or nothing for a property whose value is undefined.
JSONMember(name, v) ==
    IF v = Undefined THEN <<>>
    ELSE <<(<<Quote>> \o name \o <<Quote, ":">> \o JSONStringifyNumber(v))>>

JSONStringifyCoin(coin) ==
    <<"{">> \o JoinComma(JSONMember(<<"i">>, coin.i)
                          \o JSONMember(<<"j">>, coin.j)
                          \o JSONMember(<<"n", "u", "m", "b", "e", "r">>, coin.number))
            \o <<"}">>

Failed == [ok |-> FALSE]

Parsed(v, p) == [ok |-> TRUE, v |-> v, p |-> p]

\* The character at position p of the text; "" past its end.
At(s, p) == IF p <= Len(s) THEN s[p] ELSE ""

RECURSIVE DigitsEnd(_, _)
DigitsEnd(s, p) == IF IsDigit(At(s, p)) THEN DigitsEnd(s, p + 1) ELSE p

ParseNumber(s, p) ==
    LET q == IF At(s, p) = "-" THEN p + 1 ELSE p
    IN  Then(DigitsEnd(s, q), LAMBDA e :
            IF e = q \/ (s[q] = "0" /\ e > q + 1) THEN Failed
            ELSE Parsed(Num((IF q > p THEN -1 ELSE 1) * DigitsValue(SubSeq(s, q, e - 1))), e))

ParseWord(s, p, word, v) ==
    IF p + Len(word) - 1 <= Len(s) /\ SubSeq(s, p, p + Len(word) - 1) = word
    THEN Parsed(v, p + Len(word))
    ELSE Failed

RECURSIVE StringEnd(_, _)
StringEnd(s, p) ==
    IF p > Len(s) \/ s[p] = "\\" THEN 0
    ELSE IF s[p] = Quote THEN p
    ELSE StringEnd(s, p + 1)

\* A string without escapes, from its opening quote at p.
ParseString(s, p) ==
    Then(StringEnd(s, p + 1), LAMBDA e :
        IF e = 0 THEN Failed ELSE Parsed(SubSeq(s, p + 1, e - 1), e + 1))

RECURSIVE ParseValue(_, _)
RECURSIVE ParseElements(_, _, _)
RECURSIVE ParseMembers(_, _, _)
ParseValue(s, p) ==
    LET ch == At(s, p) IN
    IF IsDigit(ch) THEN ParseNumber(s, p)
    ELSE IF ch = "n" THEN ParseWord(s, p, <<"n", "u", "l", "l">>, Null)
    ELSE IF ch = "t" THEN ParseWord(s, p, <<"t", "r", "u", "e">>, [bool |-> TRUE])
    ELSE IF ch = "f" THEN ParseWord(s, p, <<"f", "a", "l", "s", "e">>, [bool |-> FALSE])
    ELSE IF ch = Quote
    THEN Then(ParseString(s, p), LAMBDA r :
             IF r.ok THEN Parsed([str |-> r.v], r.p) ELSE Failed)
    ELSE IF ch = "["
    THEN IF At(s, p + 1) = "]" THEN Parsed([arr |-> <<>>], p + 2)
         ELSE ParseElements(s, p + 1, <<>>)
    ELSE IF ch = "{"
    THEN IF At(s, p + 1) = "}" THEN Parsed([obj |-> EmptyMap], p + 2)
         ELSE ParseMembers(s, p + 1, EmptyMap)
    ELSE ParseNumber(s, p)

ParseElements(s, p, acc) ==
    Then(ParseValue(s, p), LAMBDA r :
        IF ~r.ok THEN Failed
        ELSE IF At(s, r.p) = "," THEN ParseElements(s, r.p + 1, Append(acc, r.v))
        ELSE IF At(s, r.p) = "]" THEN Parsed([arr |-> Append(acc, r.v)], r.p + 1)
        ELSE Failed)

ParseMembers(s, p, acc) ==
    IF At(s, p) # Quote THEN Failed
    ELSE Then(ParseString(s, p), LAMBDA k :
        IF ~k.ok THEN Failed
        ELSE IF At(s, k.p) # ":" THEN Failed
        ELSE Then(ParseValue(s, k.p + 1), LAMBDA r :
            IF ~r.ok THEN Failed
            ELSE IF At(s, r.p) = ","
            THEN ParseMembers(s, r.p + 1, (k.v :> r.v) @@ acc)
            ELSE IF At(s, r.p) = "}"
            THEN Parsed([obj |-> (k.v :> r.v) @@ acc], r.p + 1)
            ELSE Failed))

\* JSON.parse(s): [ok |-> FALSE] stands for the SyntaxError it throws.
JSONParse(s) ==
    Then(s, LAMBDA text :
    Then(ParseValue(text, 1), LAMBDA r :
        IF r.ok /\ r.p = Len(text) + 1 THEN [ok |-> TRUE, v |-> r.v] ELSE Failed))

\* state.name: undefined for a property the object does not have.
Prop(state, name) ==
    IF IsObj(state) /\ name \in DOMAIN state.obj THEN state.obj[name] ELSE Undefined

\* A parsed value, seen as a Coin by the code that reads its properties.
AsCoin(v) ==
    [i |-> Prop(v, <<"i">>), j |-> Prop(v, <<"j">>),
     number |-> Prop(v, <<"n", "u", "m", "b", "e", "r">>)]

\* A value that is not an array, where the code expects the Coin[].
NotArray(v) == <<[notArray |-> v]>>

\* Array.isArray(coins)
IsArray(coins) == ~(Len(coins) = 1 /\ "notArray" \in DOMAIN coins[1])

\* A parsed value, seen as the Coin[] the handlers push to and pop from.
AsCoins(v) ==
    IF IsArr(v) THEN [n \in 1..Len(v.arr) |-> AsCoin(v.arr[n])] ELSE NotArray(v)

(***************************************************************************)
(* geocache.ts                                                             *)
(***************************************************************************)
createGeocache(i, j, coins) == [i |-> i, j |-> j, coins |-> coins]

\* JSON.stringify({ i: this.i, j: this.j, coins: this.coins })
toMemento(cache) ==
    <<"{">> \o JoinComma(JSONMember(<<"i">>, cache.i)
                          \o JSONMember(<<"j">>, cache.j)
                          \o <<(<<Quote, "c", "o", "i", "n", "s", Quote, ":", "[">>
                                \o JoinComma([n \in 1..Len(cache.coins) |->
                                                 JSONStringifyCoin(cache.coins[n])])
                                \o <<"]">>)>>)
            \o <<"}">>

\* fromMemento without the assignments of lines 26 and 27.
fromMementoCoinsOnly(cache, memento) ==
    Then(JSONParse(memento), LAMBDA state :
        IF ~state.ok \/ state.v = Null THEN [threw |-> TRUE, cache |-> cache]
        ELSE [threw |-> FALSE,
              cache |-> [cache EXCEPT
                            !.coins = AsCoins(Prop(state.v, <<"c", "o", "i", "n", "s">>))]])

\* The result is [threw, cache]: threw stands for the SyntaxError of
\* JSON.parse, or the TypeError of reading a property of null.
fromMemento(cache, memento) ==
    Then(JSONParse(memento), LAMBDA state :
        IF ~state.ok \/ state.v = Null THEN [threw |-> TRUE, cache |-> cache]
        ELSE [threw |-> FALSE,
              cache |-> [cache EXCEPT !.i = Prop(state.v, <<"i">>),
                                      !.j = Prop(state.v, <<"j">>),
                                      !.coins = AsCoins(Prop(state.v, <<"c", "o", "i", "n", "s">>))]])

formatCoin(coin) ==
    ToStr(coin.i) \o <<":">> \o ToStr(coin.j) \o <<"#">> \o ToStr(coin.number)

(***************************************************************************)
(* The oracle (luck.ts) and the board (board.ts).                          *)
(***************************************************************************)
CharCodes ==
    [ch \in {"-", ",", "_", "c", "o", "i", "n", "s"} \cup DOMAIN DigitValues |->
        CASE ch = "-" -> 45
          [] ch = "," -> 44
          [] ch = "_" -> 95
          [] ch = "c" -> 99
          [] ch = "o" -> 111
          [] ch = "i" -> 105
          [] ch = "n" -> 110
          [] ch = "s" -> 115
          [] OTHER -> 48 + DigitValue(ch)]

CharCode(ch) == CharCodes[ch]

RECURSIVE Hash(_, _)
Hash(h, s) ==
    IF s = <<>> THEN h
    ELSE Hash((h * LuckMultiplier + CharCode(Head(s))) % LuckScale, Tail(s))

\* luck(key), in 1/LuckScale: a deterministic function of the key.  A seed is
\* the start of the hash and, from LuckScale on, a salt added per character,
\* so that the luck of a key is not a function of the luck of its prefix.
luck(key) ==
    (Hash(seed % LuckScale, key) + (seed \div LuckScale) * Len(key)) % LuckScale

OAKES_CLASSROOM == [lat |-> 0, lng |-> 0]

CellKey(cell) == IntToStr(cell.i) \o <<",">> \o IntToStr(cell.j)

\* board.getCellForPoint(point): the cell whose tile holds the point.
coordinateToCell(point) ==
    [i |-> (point.lat - OAKES_CLASSROOM.lat) \div TILE_WIDTH,
     j |-> (point.lng - OAKES_CLASSROOM.lng) \div TILE_WIDTH]

Side(radius) == 2 * radius + 1

\* getCellsNearPoint without the last row and the last column of the square.
getCellsNearPointHalfOpen(point, radius) ==
    [n \in 1..((2 * radius) * (2 * radius)) |->
        [i |-> coordinateToCell(point).i - radius + ((n - 1) \div (2 * radius)),
         j |-> coordinateToCell(point).j - radius + ((n - 1) % (2 * radius))]]

\* The square of cells around the cell of the point, row by row.
getCellsNearPoint(point, radius) ==
    [n \in 1..(Side(radius) * Side(radius)) |->
        [i |-> coordinateToCell(point).i - radius + ((n - 1) \div Side(radius)),
         j |-> coordinateToCell(point).j - radius + ((n - 1) % Side(radius))]]

\* A getCanonicalCell that allocates a Cell on every request.
getCanonicalCellAnew(known, cell) ==
    Then(CellKey(cell), LAMBDA key : (key :> (Count(known, key) + 1)) @@ known)

\* board.getCanonicalCell(cell): the board's table after the request; the
\* Cell it returns is the one the table holds under the key of (i, j).
getCanonicalCell(known, cell) ==
    Then(CellKey(cell), LAMBDA key :
        IF key \in DOMAIN known THEN known ELSE (key :> 1) @@ known)

\* The board's table after the requests for the cells from..to of the array,
\* one after the other (the first half of them, then the second).
RECURSIVE internCells(_, _, _, _)
internCells(known, cells, from, to) ==
    IF from > to THEN known
    ELSE IF from = to THEN getCanonicalCell(known, cells[from])
    ELSE Then(internCells(known, cells, from, (from + to) \div 2), LAMBDA known1 :
             internCells(known1, cells, ((from + to) \div 2) + 1, to))

(***************************************************************************)
(* main.ts: the globals are threaded through the functions as a record g.  *)
(***************************************************************************)
Globals ==
    [playerLocation |-> playerLocation, inventory |-> inventory,
     cacheData |-> cacheData, movementHistory |-> movementHistory,
     localStorage |-> localStorage, rectangles |-> rectangles,
     knownCells |-> knownCells, generated |-> generated]

saveGameState(g) ==
    Then(g, LAMBDA g1 :
        [g1 EXCEPT !.localStorage =
            [playerLocation |-> g1.playerLocation,
             inventory |-> g1.inventory,
             cacheData |-> g1.cacheData,
             movementHistory |-> g1.movementHistory]])

InitialCoins(cell, numCoins) ==
    [idx \in 1..numCoins |->
        [i |-> Num(cell.i), j |-> Num(cell.j), number |-> Num(idx - 1)]]

\* The branch of ensureCacheExists for a key of the cache table.  The result
\* is [threw, g, cache].
restoreCache(g, key) ==
    Then(fromMemento(createGeocache(Num(0), Num(0), <<>>), g.cacheData[key]), LAMBDA r :
        [threw |-> r.threw, g |-> g, cache |-> r.cache])

\* coinCount with MAX_COINS - MIN_COINS for the number of counts.
coinCountShort(l) == ((l * (MAX_COINS - MIN_COINS)) \div LuckScale) + MIN_COINS

\* Math.floor(l * (MAX_COINS - MIN_COINS + 1)) + MIN_COINS, for the luck l.
coinCount(l) == ((l * (MAX_COINS - MIN_COINS + 1)) \div LuckScale) + MIN_COINS

\* generateCache that makes an empty cache where the test of line 75 fails.
generateCacheEverywhere(g, cell) ==
    Then(CellKey(cell), LAMBDA key :
    Then(createGeocache(Num(cell.i), Num(cell.j), <<>>), LAMBDA cache :
        [threw |-> FALSE,
         g |-> saveGameState([g EXCEPT !.cacheData = (key :> toMemento(cache)) @@ g.cacheData]),
         cache |-> cache]))

\* The branch of ensureCacheExists for a key the cache table does not have:
\* threw stands for the Error thrown for a cell without a cache.
generateCache(g, cell) ==
    Then(CellKey(cell), LAMBDA key :
    IF luck(key) >= CACHE_SPAWN_PROBABILITY
    THEN [threw |-> TRUE, g |-> g, cache |-> Null]
    ELSE LET numCoins == coinCount(luck(key \o <<"_", "c", "o", "i", "n", "s">>))
         IN  Then(createGeocache(Num(cell.i), Num(cell.j), InitialCoins(cell, numCoins)),
                  LAMBDA cache :
                      [threw |-> FALSE,
                       g |-> saveGameState(
                                 [g EXCEPT !.cacheData = (key :> toMemento(cache)) @@ g.cacheData,
                                           !.generated = (key :> (Count(g.generated, key) + 1))
                                                             @@ g.generated]),
                       cache |-> cache]))

\* ensureCacheExists without the lookup of line 69.
ensureCacheExistsAnew(g, cell) == generateCache(g, cell)

ensureCacheExists(g, cell) ==
    Then(CellKey(cell), LAMBDA key :
        IF key \in DOMAIN g.cacheData
        THEN restoreCache(g, key)
        ELSE generateCache(g, cell))

\* updateCacheMemento without the assignment of line 100.
updateCacheMementoNoStore(g, cache) == saveGameState(g)

\* updateCacheMemento without the call of line 101.
updateCacheMementoNoSave(g, cache) ==
    LET key == ToStr(cache.i) \o <<",">> \o ToStr(cache.j)
    IN  [g EXCEPT !.cacheData = (key :> toMemento(cache)) @@ g.cacheData]

\* updateCacheMemento with the key of the last coin of the cache for the key
\* of the cache.
updateCacheMementoByCoin(g, cache) ==
    LET key == IF Len(cache.coins) > 0
               THEN ToStr(cache.coins[Len(cache.coins)].i) \o <<",">>
                        \o ToStr(cache.coins[Len(cache.coins)].j)
               ELSE ToStr(cache.i) \o <<",">> \o ToStr(cache.j)
    IN  saveGameState([g EXCEPT !.cacheData = (key :> toMemento(cache)) @@ g.cacheData])

updateCacheMemento(g, cache) ==
    LET key == ToStr(cache.i) \o <<",">> \o ToStr(cache.j)
    IN  saveGameState([g EXCEPT !.cacheData = (key :> toMemento(cache)) @@ g.cacheData])

\* addCoinToInventory with > for the >= of line 156.
addCoinToInventoryOverfull(g, coin) ==
    IF Len(g.inventory) > MAX_INVENTORY_SIZE
    THEN [ok |-> FALSE, g |-> g]
    ELSE [ok |-> TRUE,
          g |-> saveGameState([g EXCEPT !.inventory = Append(g.inventory, coin)])]

\* The result is [ok, g].
addCoinToInventory(g, coin) ==
    IF Len(g.inventory) >= MAX_INVENTORY_SIZE
    THEN [ok |-> FALSE, g |-> g]
    ELSE [ok |-> TRUE,
          g |-> saveGameState([g EXCEPT !.inventory = Append(g.inventory, coin)])]

\* The result is [threw, g].
renderCacheOnMap(g, cell) ==
    Then(ensureCacheExists(g, cell),
         LAMBDA r :
             IF r.threw THEN [threw |-> TRUE, g |-> r.g]
             ELSE [threw |-> FALSE,
                   g |-> [r.g EXCEPT !.rectangles = (cell :> r.cache) @@ r.g.rectangles]])

\* The enumeration of the cells from..to that ends at the first throw: the
\* result is [threw, g].
RECURSIVE forEachUntilThrow(_, _, _, _)
forEachUntilThrow(g, visibleCells, from, to) ==
    IF from > to THEN [threw |-> FALSE, g |-> g]
    ELSE IF from = to THEN renderCacheOnMap(g, visibleCells[from])
    ELSE Then(forEachUntilThrow(g, visibleCells, from, (from + to) \div 2), LAMBDA r :
             IF r.threw THEN r
             ELSE forEachUntilThrow(r.g, visibleCells, ((from + to) \div 2) + 1, to))

\* visibleCells.forEach without the try and catch of lines 265-273.
forEachVisibleCellUncaught(g, visibleCells, from, to) ==
    forEachUntilThrow(g, visibleCells, from, to).g

\* visibleCells.forEach with its try and catch, for the cells from..to of the
\* array, one after the other (the first half of them, then the second).
RECURSIVE forEachVisibleCell(_, _, _, _)
forEachVisibleCell(g, visibleCells, from, to) ==
    IF from > to THEN g
    ELSE IF from = to THEN renderCacheOnMap(g, visibleCells[from]).g
    ELSE Then(forEachVisibleCell(g, visibleCells, from, (from + to) \div 2), LAMBDA g1 :
             forEachVisibleCell(g1, visibleCells, ((from + to) \div 2) + 1, to))

\* updateCaches that drops the cache table before it renders the cells.
updateCachesForgetful(g) ==
    Then(getCellsNearPoint(g.playerLocation, NEIGHBORHOOD_RADIUS), LAMBDA visibleCells :
    Then([g EXCEPT !.rectangles = EmptyMap,
                   !.cacheData = EmptyMap,
                   !.knownCells = internCells(@, visibleCells, 1, Len(visibleCells))],
         LAMBDA g1 : forEachVisibleCell(g1, visibleCells, 1, Len(visibleCells))))

updateCaches(g) ==
    Then(getCellsNearPoint(g.playerLocation, NEIGHBORHOOD_RADIUS), LAMBDA visibleCells :
    Then([g EXCEPT !.rectangles = EmptyMap,
                   !.knownCells = internCells(@, visibleCells, 1, Len(visibleCells))],
         LAMBDA g1 : forEachVisibleCell(g1, visibleCells, 1, Len(visibleCells))))

movePlayer(g, dx, dy) ==
    LET to == [lat |-> g.playerLocation.lat + dy * TILE_WIDTH,
               lng |-> g.playerLocation.lng + dx * TILE_WIDTH]
    IN  Then(updateCaches([g EXCEPT !.playerLocation = to,
                                    !.movementHistory = Append(g.movementHistory, to)]),
             LAMBDA g1 : saveGameState(g1))

\* The success callback of watchPosition, for the position reported.
geolocationUpdate(g, position) ==
    Then(updateCaches([g EXCEPT !.playerLocation = position,
                                !.movementHistory = Append(g.movementHistory, position)]),
         LAMBDA g1 : saveGameState(g1))

\* localStorage.getItem(name) is not null.
hasItem(storage, name) == name \in DOMAIN storage

\* JSON.parse(localStorage.getItem(name) || fallback)
ParseOr(storage, name, fallback) ==
    IF hasItem(storage, name) THEN storage[name] ELSE fallback

\* Lines 21-31 of the module, run at page load.
moduleGlobals(storage, gen) ==
    [playerLocation |-> OAKES_CLASSROOM,
     inventory |-> ParseOr(storage, "inventory", <<>>),
     cacheData |-> ParseOr(storage, "cacheData", EmptyMap),
     movementHistory |-> <<>>,
     localStorage |-> storage,
     rectangles |-> EmptyMap,
     knownCells |-> EmptyMap,
     generated |-> gen]

loadGameState(g) ==
    updateCaches(
        [g EXCEPT
            !.playerLocation =
                IF hasItem(g.localStorage, "playerLocation")
                THEN g.localStorage["playerLocation"]
                ELSE OAKES_CLASSROOM,
            !.inventory =
                IF hasItem(g.localStorage, "inventory")
                THEN g.inventory \o g.localStorage["inventory"]
                ELSE g.inventory,
            !.cacheData =
                IF hasItem(g.localStorage, "cacheData")
                THEN g.localStorage["cacheData"] @@ g.cacheData
                ELSE g.cacheData,
            !.movementHistory =
                IF hasItem(g.localStorage, "movementHistory")
                THEN g.movementHistory \o g.localStorage["movementHistory"]
                ELSE g.movementHistory])

\* A page load: the module's globals, then loadGameState().
pageLoad(storage, gen) ==
    Then(moduleGlobals(storage, gen), LAMBDA g : loadGameState(g))

Last(s) == s[Len(s)]

Front(s) == SubSeq(s, 1, Len(s) - 1)

\* collectCoinSteps without the push of line 231.
collectCoinStepsNoRollback(g, cell) ==
    IF Len(g.rectangles[cell].coins) > 0
    THEN LET coin == Last(g.rectangles[cell].coins) IN
         Then([g EXCEPT !.rectangles[cell].coins = Front(@)], LAMBDA g1 :
         Then(addCoinToInventory(g1, formatCoin(coin)), LAMBDA r :
         Then(updateCacheMemento(r.g, r.g.rectangles[cell]), LAMBDA g4 :
             <<g1, r.g, r.g, g4>>)))
    ELSE <<g>>

\* collectCoinSteps with the call of line 233 after the if of line 228.
collectCoinStepsAlwaysSaves(g, cell) ==
    IF Len(g.rectangles[cell].coins) > 0
    THEN LET coin == Last(g.rectangles[cell].coins) IN
         Then([g EXCEPT !.rectangles[cell].coins = Front(@)], LAMBDA g1 :
         Then(addCoinToInventory(g1, formatCoin(coin)), LAMBDA r :
         Then(IF r.ok THEN r.g
              ELSE [r.g EXCEPT !.rectangles[cell].coins = Append(@, coin)], LAMBDA g3 :
         Then(updateCacheMemento(g3, g3.rectangles[cell]), LAMBDA g4 :
             <<g1, r.g, g3, g4>>))))
    ELSE <<updateCacheMemento(g, g.rectangles[cell])>>

\* The click handler of #collectCoin in the popup of cell: the globals after
\* each of its statements (the pop, addCoinToInventory, the push back of a
\* refused coin, updateCacheMemento); <<g>> when the cache has no coin.
collectCoinSteps(g, cell) ==
    IF Len(g.rectangles[cell].coins) > 0
    THEN LET coin == Last(g.rectangles[cell].coins) IN
         Then([g EXCEPT !.rectangles[cell].coins = Front(@)], LAMBDA g1 :
         Then(addCoinToInventory(g1, formatCoin(coin)), LAMBDA r :
         Then(IF r.ok THEN r.g
              ELSE [r.g EXCEPT !.rectangles[cell].coins = Append(@, coin)], LAMBDA g3 :
         Then(updateCacheMemento(g3, g3.rectangles[cell]), LAMBDA g4 :
             <<g1, r.g, g3, g4>>))))
    ELSE <<g>>

collectCoin(g, cell) == Last(collectCoinSteps(g, cell))

\* decodeCoin that reads the digits of a field and not its sign.
decodeCoinUnsigned(coinStr) ==
    LET fields == Split(coinStr)
        at(n) == IF n > Len(fields) THEN Undefined
                 ELSE IF fields[n] # <<>> /\ Head(fields[n]) = "-"
                 THEN Number(Tail(fields[n]))
                 ELSE Number(fields[n])
    IN  [i |-> at(1), j |-> at(2), number |-> at(3)]

\* const [i, j, number] = coinStr.split(/[:#]/).map(Number)
decodeCoin(coinStr) ==
    LET fields == Split(coinStr)
        at(n) == IF n <= Len(fields) THEN Number(fields[n]) ELSE Undefined
    IN  [i |-> at(1), j |-> at(2), number |-> at(3)]

\* The click handler of #depositCoin in the popup of cell: the globals after
\* each of its statements (the pop, the push, updateCacheMemento); <<g>> when
\* the inventory is empty.
depositCoinSteps(g, cell) ==
    IF Len(g.inventory) > 0
    THEN LET coinStr == Last(g.inventory) IN
         Then([g EXCEPT !.inventory = Front(@)], LAMBDA g1 :
         Then([g1 EXCEPT !.rectangles[cell].coins = Append(@, decodeCoin(coinStr))],
              LAMBDA g2 :
         Then(updateCacheMemento(g2, g2.rectangles[cell]), LAMBDA g3 :
             <<g1, g2, g3>>)))
    ELSE <<g>>

depositCoin(g, cell) == Last(depositCoinSteps(g, cell))

\* resetGameState() once the player has confirmed.
resetGameState(g) ==
    updateCaches(
        [g EXCEPT
            !.inventory = <<>>,
            !.cacheData = EmptyMap,
            !.playerLocation = OAKES_CLASSROOM,
            !.localStorage =
                [name \in DOMAIN g.localStorage
                          \ {"playerLocation", "inventory", "cacheData"}
                    |-> g.localStorage[name]],
            !.movementHistory = <<>>])

SetGlobals(g) ==
    /\ playerLocation' = g.playerLocation
    /\ inventory' = g.inventory
    /\ cacheData' = g.cacheData
    /\ movementHistory' = g.movementHistory
    /\ localStorage' = g.localStorage
    /\ rectangles' = g.rectangles
    /\ knownCells' = g.knownCells
    /\ generated' = g.generated

(***************************************************************************)
(* The state machine.                                                      *)
(***************************************************************************)
Init ==
    /\ seed \in Seeds
    /\ \E g \in {pageLoad(EmptyMap, EmptyMap)} :
          /\ playerLocation = g.playerLocation
          /\ inventory = g.inventory
          /\ cacheData = g.cacheData
          /\ movementHistory = g.movementHistory
          /\ localStorage = g.localStorage
          /\ rectangles = g.rectangles
          /\ knownCells = g.knownCells
          /\ generated = g.generated
    /\ events = 0
    /\ erased = {}
    /\ lastCoins = EmptyMap
    /\ otherTab = <<>>

\* History: the caches that come into view again after they were out of it.
Revisit(last, visible) ==
    [cell \in DOMAIN last |->
        IF cell \in visible /\ cell \notin DOMAIN rectangles
        THEN [last[cell] EXCEPT !.revisited = TRUE]
        ELSE last[cell]]

\* History: the coins a handler left in the cache of cell.
Left(g, cell) ==
    (cell :> [coins |-> g.rectangles[cell].coins, revisited |-> FALSE]) @@ lastCoins

MoveClick(dx, dy) == \E g \in {movePlayer(Globals, dx, dy)} : SetGlobals(g)

CollectClick(cell) == \E g \in {collectCoin(Globals, cell)} : SetGlobals(g)

DepositClick(cell) == \E g \in {depositCoin(Globals, cell)} : SetGlobals(g)

PageReload == \E g \in {pageLoad(localStorage, generated)} : SetGlobals(g)

ResetClick ==
    \E g \in {resetGameState([Globals EXCEPT !.generated = EmptyMap])} : SetGlobals(g)

\* A click on one of the four movement buttons.
Move ==
    /\ events < MaxEvents
    /\ \E d \in {<<0, 1>>, <<0, -1>>, <<1, 0>>, <<-1, 0>>} : MoveClick(d[1], d[2])
    /\ lastCoins' = Revisit(lastCoins, DOMAIN rectangles')
    /\ events' = events + 1
    /\ UNCHANGED <<seed, erased, otherTab>>

\* createPopupContent(cache, cell) returns the popup: cache.coins.map is a
\* TypeError for coins that are not an array, and the popup has no buttons.
PopupOpens(cell) == IsArray(rectangles[cell].coins)

\* A click on #collectCoin in the popup of a rectangle on the map.
Collect ==
    \E cell \in DOMAIN rectangles :
        /\ PopupOpens(cell)
        /\ CollectClick(cell)
        /\ lastCoins' = IF Len(rectangles[cell].coins) > 0
                        THEN Left([rectangles |-> rectangles'], cell)
                        ELSE lastCoins
        /\ UNCHANGED <<seed, events, erased, otherTab>>

\* A click on #depositCoin in the popup of a rectangle on the map.
Deposit ==
    \E cell \in DOMAIN rectangles :
        /\ PopupOpens(cell)
        /\ Len(inventory) > 0 => events < MaxEvents
        /\ DepositClick(cell)
        /\ lastCoins' = IF Len(inventory) > 0
                        THEN Left([rectangles |-> rectangles'], cell)
                        ELSE lastCoins
        /\ events' = IF Len(inventory) > 0 THEN events + 1 ELSE events
        /\ UNCHANGED <<seed, erased, otherTab>>

\* The page is closed and loaded again.
Reload ==
    /\ events < MaxEvents
    /\ PageReload
    /\ lastCoins' = Revisit(lastCoins, DOMAIN rectangles')
    /\ events' = events + 1
    /\ UNCHANGED <<seed, erased, otherTab>>

\* A click on #reset, confirmed.
Reset ==
    /\ events < MaxEvents
    /\ ResetClick
    /\ erased' = erased \cup DOMAIN generated
    /\ lastCoins' = EmptyMap
    /\ events' = events + 1
    /\ UNCHANGED <<seed, otherTab>>

Next == Move \/ Collect \/ Deposit \/ Reload \/ Reset

Spec == Init /\ [][Next]_vars

\* The state after a page load over the given localStorage.
Loaded(storage) ==
    /\ \E g \in {pageLoad(storage, EmptyMap)} :
          /\ playerLocation = g.playerLocation
          /\ inventory = g.inventory
          /\ cacheData = g.cacheData
          /\ movementHistory = g.movementHistory
          /\ localStorage = g.localStorage
          /\ rectangles = g.rectangles
          /\ knownCells = g.knownCells
          /\ generated = g.generated
    /\ events = 0
    /\ erased = {}
    /\ lastCoins = EmptyMap
    /\ otherTab = <<>>

\* The generation of coins under every oracle: a fresh page load, then moves
\* and resets.
GenInit == seed \in GenSeeds /\ Loaded(EmptyMap)

GenNext == Move \/ Reset

GenSpec == GenInit /\ [][GenNext]_vars

\* The positions the geolocation sensor reports: a point inside the tile
\* 0,-3 and a point inside the tile 0,-1.
GeoPositions == {[lat |-> 1, lng |-> -5], [lat |-> 1, lng |-> -1]}

GeolocationReport(position) ==
    \E g \in {geolocationUpdate(Globals, position)} : SetGlobals(g)

\* The sensor, switched on, reports a position.
Geolocate ==
    /\ events < MaxEvents
    /\ \E position \in GeoPositions : GeolocationReport(position)
    /\ lastCoins' = Revisit(lastCoins, DOMAIN rectangles')
    /\ events' = events + 1
    /\ UNCHANGED <<seed, erased, otherTab>>

\* The player moves, by the buttons and by the sensor, and collects and
\* deposits coins.
GeoNext == Move \/ Geolocate \/ Collect \/ Deposit

GeoSpec == Init /\ [][GeoNext]_vars

\* The program under movement buttons and the two buttons of the popups.
PopupNext == Move \/ Collect \/ Deposit

PopupSpec == Init /\ [][PopupNext]_vars

\* The globals of a page, without the localStorage of the browser.
TabGlobals(g) ==
    [playerLocation |-> g.playerLocation, inventory |-> g.inventory,
     cacheData |-> g.cacheData, movementHistory |-> g.movementHistory,
     rectangles |-> g.rectangles, knownCells |-> g.knownCells]

\* The globals of a page in another tab, over the localStorage of the browser.
InTab(tab) ==
    [playerLocation |-> tab.playerLocation, inventory |-> tab.inventory,
     cacheData |-> tab.cacheData, movementHistory |-> tab.movementHistory,
     localStorage |-> localStorage, rectangles |-> tab.rectangles,
     knownCells |-> tab.knownCells, generated |-> generated]

\* The page is loaded over empty localStorage, and then again in a second
\* tab over the localStorage the first load left; the first tab is shown.
TabInit ==
    /\ seed \in Seeds
    /\ \E g \in {pageLoad(EmptyMap, EmptyMap)} :
          \E second \in {pageLoad(g.localStorage, g.generated)} :
              /\ playerLocation = g.playerLocation
              /\ inventory = g.inventory
              /\ cacheData = g.cacheData
              /\ movementHistory = g.movementHistory
              /\ rectangles = g.rectangles
              /\ knownCells = g.knownCells
              /\ localStorage = second.localStorage
              /\ generated = second.generated
              /\ otherTab = <<TabGlobals(second)>>
    /\ events = 0
    /\ erased = {}
    /\ lastCoins = EmptyMap

\* The user switches to the other tab: its handlers are the ones that run
\* from now on, over the same localStorage.
SwitchTab ==
    /\ Len(otherTab) = 1
    /\ SetGlobals(InTab(otherTab[1]))
    /\ otherTab' = <<TabGlobals(Globals)>>
    /\ UNCHANGED <<seed, events, erased, lastCoins>>

TabNext == Move \/ Collect \/ Deposit \/ SwitchTab

\* Two tabs of one browser on the page; each handler runs to its end in the
\* tab it was clicked in.
TabSpec == TabInit /\ [][TabNext]_vars

\* Contents of localStorage the page is loaded over: nothing; an inventory
\* with the id "0:x#0"; a cache table whose snapshot for "0,0" is the text
\* {"i":0,"j":0}; a cache table whose snapshot for "0,0" is the text {"i":0 .
StoredStates ==
    {EmptyMap,
     [inventory |-> << <<"0", ":", "x", "#", "0">> >>],
     [cacheData |-> (<<"0", ",", "0">>
                        :> <<"{", Quote, "i", Quote, ":", "0", ",",
                             Quote, "j", Quote, ":", "0", "}">>)],
     [cacheData |-> (<<"0", ",", "0">> :> <<"{", Quote, "i", Quote, ":", "0">>)]}

\* The oracles the page is loaded with over these contents: under the second
\* no cell around the origin has a cache.
LoadSeeds == {24, 26}

\* The program from a page load over contents of localStorage it did not
\* write itself.
LoadInit == seed \in LoadSeeds /\ \E storage \in StoredStates : Loaded(storage)

LoadSpec == LoadInit /\ [][Next]_vars

(***************************************************************************)
(* Properties.                                                             *)
(***************************************************************************)
\* C1: a cache that was materialized and acted on keeps, over moves away and
\* back and over page reloads, exactly the coins the last collect or deposit
\* on it left: ensureCacheExists returns them for its cell, and the rectangle
\* drawn for the cell holds them.
RevisitReturnsLastCoins ==
    \A cell \in DOMAIN lastCoins :
        /\ Then(ensureCacheExists(Globals, cell), LAMBDA r :
               ~r.threw /\ r.cache.coins = lastCoins[cell].coins)
        /\ cell \in DOMAIN rectangles => rectangles[cell].coins = lastCoins[cell].coins

\* A cache emptied by collects is in view again after it was out of view.
EmptiedCacheRevisited ==
    \E cell \in DOMAIN lastCoins \cap DOMAIN rectangles :
        /\ lastCoins[cell].revisited
        /\ lastCoins[cell].coins = <<>>
        /\ Count(generated, CellKey(cell)) = 1

\* C2: a collect on a non-empty cache while the inventory holds
\* MAX_INVENTORY_SIZE coins leaves the cache's coin list, the inventory and
\* the cache's snapshot (in the table and in localStorage) as they were.
FullInventoryCollectRollsBack ==
    [][\A cell \in DOMAIN rectangles :
          (/\ Len(inventory) = MAX_INVENTORY_SIZE
           /\ Len(rectangles[cell].coins) > 0
           /\ CollectClick(cell))
          => /\ rectangles'[cell].coins = rectangles[cell].coins
             /\ inventory' = inventory
             /\ cacheData'[CellKey(cell)] = cacheData[CellKey(cell)]
             /\ localStorage'["cacheData"][CellKey(cell)] = cacheData[CellKey(cell)]
             /\ localStorage'["inventory"] = inventory]_vars

\* The inventory holds exactly MAX_INVENTORY_SIZE coins in front of a cache
\* with a coin to collect.
FullInventoryAtCache ==
    /\ Len(inventory) = MAX_INVENTORY_SIZE
    /\ \E cell \in DOMAIN rectangles :
          /\ Len(rectangles[cell].coins) > 0
          /\ cacheData[CellKey(cell)] = toMemento(rectangles[cell])

StoredInventoryHas(storage, id) ==
    /\ hasItem(storage, "inventory")
    /\ \E n \in 1..Len(storage["inventory"]) : storage["inventory"][n] = id

StoredCacheHas(storage, key, id) ==
    /\ hasItem(storage, "cacheData")
    /\ key \in DOMAIN storage["cacheData"]
    /\ Then(fromMemento(createGeocache(Num(0), Num(0), <<>>), storage["cacheData"][key]),
            LAMBDA r : /\ ~r.threw
                       /\ \E n \in 1..Len(r.cache.coins) : formatCoin(r.cache.coins[n]) = id)

\* C3: after each statement of a collect or deposit handler, what
\* localStorage holds has the moved coin in exactly one of the saved inventory
\* and the saved snapshot of the cache.
CoinMovesAtomically ==
    \A cell \in DOMAIN rectangles :
        /\ (Len(rectangles[cell].coins) > 0 /\ Len(inventory) < MAX_INVENTORY_SIZE)
           => \A n \in 1..Len(collectCoinSteps(Globals, cell)) :
                 StoredInventoryHas(collectCoinSteps(Globals, cell)[n].localStorage,
                                    formatCoin(Last(rectangles[cell].coins)))
                 # StoredCacheHas(collectCoinSteps(Globals, cell)[n].localStorage,
                                  CellKey(cell), formatCoin(Last(rectangles[cell].coins)))
        /\ Len(inventory) > 0
           => \A n \in 1..Len(depositCoinSteps(Globals, cell)) :
                 StoredInventoryHas(depositCoinSteps(Globals, cell)[n].localStorage,
                                    Last(inventory))
                 # StoredCacheHas(depositCoinSteps(Globals, cell)[n].localStorage,
                                  CellKey(cell), Last(inventory))

\* C4: the inventory never holds more than MAX_INVENTORY_SIZE coins.
InventoryBounded == Len(inventory) <= MAX_INVENTORY_SIZE

\* C5: a page load over a saved inventory gives an inventory equal to the
\* saved list, element for element and in order.
InventoryPersistsExactly ==
    [][(hasItem(localStorage, "inventory") /\ PageReload /\ events' = events + 1)
          => inventory' = localStorage["inventory"]]_vars

\* The coins of the cache a memento of the table restores.
MementoCoins(memento) ==
    Then(fromMemento(createGeocache(Num(0), Num(0), <<>>), memento),
         LAMBDA r : IF r.threw THEN <<>> ELSE r.cache.coins)

\* The places a coin id is held at: positions of the inventory (under <<>>)
\* and positions of the coin lists of the caches of the table (under their key).
Places(id) ==
    {<<(<<>>), n>> : n \in {m \in 1..Len(inventory) : inventory[m] = id}}
    \cup UNION {{<<key, n>> : n \in {m \in 1..Len(MementoCoins(cacheData[key])) :
                                         formatCoin(MementoCoins(cacheData[key])[m]) = id}}
                   : key \in DOMAIN cacheData}

HeldIds ==
    {inventory[n] : n \in 1..Len(inventory)}
    \cup UNION {{formatCoin(MementoCoins(cacheData[key])[n])
                    : n \in 1..Len(MementoCoins(cacheData[key]))}
                   : key \in DOMAIN cacheData}

\* C6: no coin id is held at two places of the inventory and the caches of
\* the table.
CoinIdsUnique == \A id \in HeldIds : Cardinality(Places(id)) <= 1

\* C7: addCoinToInventory on an inventory of exactly MAX_INVENTORY_SIZE coins
\* reports failure and leaves the inventory as it was; on a shorter inventory
\* it reports success and appends the coin at the end.
AddCoinRespectsCapacity ==
    \A cell \in DOMAIN rectangles :
        \A n \in 1..Len(rectangles[cell].coins) :
            Then(addCoinToInventory(Globals, formatCoin(rectangles[cell].coins[n])),
                 LAMBDA r :
                     /\ Len(inventory) = MAX_INVENTORY_SIZE
                        => (~r.ok /\ r.g.inventory = inventory
                                  /\ Len(r.g.inventory) = MAX_INVENTORY_SIZE)
                     /\ Len(inventory) < MAX_INVENTORY_SIZE
                        => (r.ok /\ r.g.inventory
                                      = Append(inventory, formatCoin(rectangles[cell].coins[n]))))

\* addCoinToInventory refuses the coin of a cache in view: the inventory holds
\* exactly MAX_INVENTORY_SIZE coins.
AddCoinRefused ==
    \E cell \in DOMAIN rectangles :
        /\ Len(rectangles[cell].coins) > 0
        /\ Len(inventory) = MAX_INVENTORY_SIZE
        /\ ~addCoinToInventory(Globals, formatCoin(Last(rectangles[cell].coins))).ok

\* C8: the coins of a cell are generated at most once over the life of the
\* game, resets included.
GeneratedOnceEver ==
    \A key \in DOMAIN generated : generated[key] <= 1 /\ key \notin erased

\* C8, between resets: a cell whose coins were generated since the last reset
\* had them generated once, and its snapshot is in the cache table.
GeneratedOncePerGame ==
    \A key \in DOMAIN generated : generated[key] = 1 /\ key \in DOMAIN cacheData

\* After a reset, the coins of a cell generated before it are generated
\* again, once.
GeneratedAgainAfterReset ==
    \E key \in DOMAIN generated \cap erased : generated[key] = 1

IntegerFields(cache) ==
    /\ IsNum(cache.i)
    /\ IsNum(cache.j)
    /\ \A n \in 1..Len(cache.coins) :
          IsNum(cache.coins[n].i) /\ IsNum(cache.coins[n].j) /\ IsNum(cache.coins[n].number)

\* C9: for a cache with integer fields, updateCacheMemento followed by
\* ensureCacheExists for its cell returns a cache with the same i, j and coin
\* list, and the toMemento of a cache restored from a snapshot of the table is
\* that snapshot, character for character.
MementoRoundTrip ==
    /\ \A cell \in DOMAIN rectangles :
          IntegerFields(rectangles[cell])
          => Then(updateCacheMemento(Globals, rectangles[cell]), LAMBDA g :
             Then(ensureCacheExists(g, cell), LAMBDA r :
                 /\ ~r.threw
                 /\ r.cache = rectangles[cell]
                 /\ toMemento(r.cache) = g.cacheData[CellKey(cell)]))
    /\ \A key \in DOMAIN cacheData :
          Then(restoreCache(Globals, key), LAMBDA r :
              (~r.threw /\ IntegerFields(r.cache)) => toMemento(r.cache) = cacheData[key])

\* A cache in view holds a coin minted by another cell, with a negative
\* index.
ForeignCoinInCache ==
    \E cell \in DOMAIN rectangles :
        /\ IntegerFields(rectangles[cell])
        /\ \E n \in 1..Len(rectangles[cell].coins) :
              /\ rectangles[cell].coins[n].j # rectangles[cell].j
              /\ rectangles[cell].coins[n].j.num < 0

\* C10: when a collect or deposit handler has run, the snapshot of the cache
\* in the table is the serialization of the cache, and localStorage holds the
\* inventory and the cache table as they are in memory.
HandlerLeavesStorageCurrent ==
    [][\A cell \in DOMAIN rectangles :
          (\/ Len(rectangles[cell].coins) > 0 /\ CollectClick(cell)
           \/ Len(inventory) > 0 /\ DepositClick(cell))
          => /\ cacheData'[CellKey(cell)] = toMemento(rectangles'[cell])
             /\ localStorage'["inventory"] = inventory'
             /\ localStorage'["cacheData"] = cacheData']_vars

\* A handler has run on a cache in view and left coins in the inventory.
HandlerHasRun ==
    \E cell \in DOMAIN lastCoins \cap DOMAIN rectangles :
        /\ ~lastCoins[cell].revisited
        /\ Len(inventory) > 0
        /\ localStorage["inventory"] = inventory
        /\ cacheData[CellKey(cell)] = toMemento(rectangles[cell])

Range(s) == {s[n] : n \in 1..Len(s)}

\* The cells of the neighbourhood of the player.
VisibleCells == Range(getCellsNearPoint(playerLocation, NEIGHBORHOOD_RADIUS))

\* The cells in view without a snapshot in the table that fail the spawn test.
AbsentCells ==
    {cell \in VisibleCells :
        CellKey(cell) \notin DOMAIN cacheData /\ luck(CellKey(cell)) >= CACHE_SPAWN_PROBABILITY}

\* C11: ensureCacheExists for a cell without a snapshot that fails the spawn
\* test throws and leaves the cache table and localStorage (and every other
\* global) as they were, and so does the request after it; the table never
\* holds a snapshot for a key that fails the spawn test.
AbsentCellStaysAbsent ==
    /\ \A key \in DOMAIN cacheData : luck(key) < CACHE_SPAWN_PROBABILITY
    /\ \A cell \in AbsentCells :
          Then(ensureCacheExists(Globals, cell), LAMBDA r :
              /\ r.threw
              /\ r.g = Globals
              /\ Then(ensureCacheExists(r.g, cell), LAMBDA again :
                     again.threw /\ again.g = Globals))

\* The player is back at the origin, where cells without a cache were
\* requested at page load and are requested again, with a cache table saved.
AbsentCellRequestedAgain ==
    /\ Len(movementHistory) >= 2
    /\ playerLocation = OAKES_CLASSROOM
    /\ AbsentCells # {}
    /\ hasItem(localStorage, "cacheData")
    /\ DOMAIN localStorage["cacheData"] # {}

\* C12: after updateCaches, the rectangles on the map are those of exactly
\* the cells of the neighbourhood that have a snapshot in the table or pass
\* the spawn test, wherever the cells without a cache come in the enumeration.
EveryCacheInViewRendered ==
    DOMAIN rectangles =
        {cell \in VisibleCells :
            CellKey(cell) \in DOMAIN cacheData \/ luck(CellKey(cell)) < CACHE_SPAWN_PROBABILITY}

\* A cache is rendered for a cell that comes after a cell without a cache in
\* the enumeration, and a cell without a cache comes after it again.
CacheRenderedAfterAbsentCell ==
    LET cells == getCellsNearPoint(playerLocation, NEIGHBORHOOD_RADIUS)
    IN  \E a, b, c \in 1..Len(cells) :
            /\ a < b /\ b < c
            /\ cells[a] \in AbsentCells
            /\ cells[b] \in DOMAIN rectangles
            /\ cells[c] \in AbsentCells

\* C13: the number of coins generated for a cell is
\* floor(luck(key + "_coins") * (MAX_COINS - MIN_COINS + 1)) + MIN_COINS, which
\* is within MIN_COINS..MAX_COINS for every value of luck; the coins carry the
\* i and j of the cell and the numbers 0..count-1 in order; generating again
\* gives the same cache and the same snapshot.
GeneratedCoinsFollowOracle ==
    /\ \A l \in 0..(LuckScale - 1) : coinCount(l) \in MIN_COINS..MAX_COINS
    /\ \A cell \in VisibleCells :
          luck(CellKey(cell)) < CACHE_SPAWN_PROBABILITY
          => Then(generateCache(Globals, cell), LAMBDA r :
                 /\ ~r.threw
                 /\ Len(r.cache.coins)
                       = ((luck(CellKey(cell) \o <<"_", "c", "o", "i", "n", "s">>)
                              * (MAX_COINS - MIN_COINS + 1)) \div LuckScale) + MIN_COINS
                 /\ Len(r.cache.coins) \in MIN_COINS..MAX_COINS
                 /\ r.cache.i = Num(cell.i) /\ r.cache.j = Num(cell.j)
                 /\ \A n \in 1..Len(r.cache.coins) :
                       r.cache.coins[n] = [i |-> Num(cell.i), j |-> Num(cell.j),
                                           number |-> Num(n - 1)]
                 /\ rectangles[cell] = r.cache
                 /\ cacheData[CellKey(cell)] = toMemento(r.cache)
                 /\ Then(generateCache(r.g, cell), LAMBDA again :
                        /\ again.cache = r.cache
                        /\ again.g.cacheData = r.g.cacheData))

\* Coins were generated a second time, after a reset, for a cell with a
\* negative index whose cache has MAX_COINS coins.
MaxCoinsGeneratedAgain ==
    \E cell \in DOMAIN rectangles :
        /\ CellKey(cell) \in erased
        /\ cell.i < 0 \/ cell.j < 0
        /\ Len(rectangles[cell].coins) = MAX_COINS

\* The coin id decodes into integers i, j and number.
Decodes(coinStr) ==
    IsNum(decodeCoin(coinStr).i) /\ IsNum(decodeCoin(coinStr).j)
        /\ IsNum(decodeCoin(coinStr).number)

\* C14: a deposit of a coin id that does not decode into integers i, j and
\* number leaves the inventory, the coins of the cache and the cache table as
\* they were.
UndecodableDepositRejected ==
    [][\A cell \in DOMAIN rectangles :
          (/\ PopupOpens(cell)
           /\ Len(inventory) > 0
           /\ ~Decodes(Last(inventory))
           /\ DepositClick(cell))
          => /\ inventory' = inventory
             /\ rectangles'[cell].coins = rectangles[cell].coins
             /\ cacheData' = cacheData]_vars

\* The snapshot is a text that parses into an object with numbers i and j
\* and a list coins.
ParsesToCache(memento) ==
    Then(JSONParse(memento), LAMBDA state :
        /\ state.ok
        /\ IsObj(state.v)
        /\ IsNum(Prop(state.v, <<"i">>))
        /\ IsNum(Prop(state.v, <<"j">>))
        /\ IsArr(Prop(state.v, <<"c", "o", "i", "n", "s">>)))

\* C15: for a cell in view whose snapshot in the table does not parse into
\* {i, j, coins}, ensureCacheExists throws as for a cell without a cache, and
\* no rectangle with a cache is on the map for the cell.
BrokenSnapshotIsNoCache ==
    \A cell \in VisibleCells :
        (CellKey(cell) \in DOMAIN cacheData /\ ~ParsesToCache(cacheData[CellKey(cell)]))
        => /\ ensureCacheExists(Globals, cell).threw
           /\ cell \notin DOMAIN rectangles

\* C16: a click on #collectCoin for a cache without coins, and a click on
\* #depositCoin with an empty inventory, run no statement: the inventory, the
\* caches, the cache table and localStorage (all the globals) are as before.
EmptySourceIsNoOp ==
    \A cell \in DOMAIN rectangles :
        /\ Len(rectangles[cell].coins) = 0
           => collectCoinSteps(Globals, cell) = <<Globals>>
        /\ Len(inventory) = 0
           => depositCoinSteps(Globals, cell) = <<Globals>>

\* A cache without coins is in view while the inventory is empty, after a
\* deposit.
EmptyCacheAndEmptyInventory ==
    /\ Len(inventory) = 0
    /\ events > 0
    /\ \E cell \in DOMAIN rectangles : Len(rectangles[cell].coins) = 0
    /\ \E cell \in DOMAIN lastCoins : Len(lastCoins[cell].coins) > 0

\* The cells of the square one tile wider than the neighbourhood.
CellsAround == Range(getCellsNearPoint(playerLocation, NEIGHBORHOOD_RADIUS + 1))

\* C17: the board holds one Cell object for each (i, j) requested so far and
\* never allocates a second one; a request for (i, j), requested before or
\* not, returns the object of the table, and the same request after it
\* returns that object again and leaves the table as it is; different
\* (i, j) have different objects.
FlyweightIdentity ==
    /\ \A key \in DOMAIN knownCells : knownCells[key] = 1
    /\ \A cell \in VisibleCells : CellKey(cell) \in DOMAIN knownCells
    /\ Cardinality({CellKey(cell) : cell \in CellsAround}) = Cardinality(CellsAround)
    /\ \A cell \in CellsAround :
          Then(getCanonicalCell(knownCells, cell), LAMBDA known :
              /\ known[CellKey(cell)] = 1
              /\ DOMAIN known = DOMAIN knownCells \cup {CellKey(cell)}
              /\ \A key \in DOMAIN knownCells : known[key] = knownCells[key]
              /\ getCanonicalCell(known, cell) = known)

\* The player has moved twice: cells with a negative index that were
\* requested by an earlier updateCaches are requested again, and cells that
\* are out of view are still in the board's table.
CellsRequestedAgain ==
    /\ Len(movementHistory) >= 2
    /\ Cardinality(DOMAIN knownCells) > Cardinality(VisibleCells)
    /\ \E cell \in VisibleCells : cell.i < 0 /\ cell.j < 0

\* The points of the tile whose corner is the player's position.
PointsOfTile ==
    {[lat |-> playerLocation.lat + dy, lng |-> playerLocation.lng + dx] :
        dx \in 0..(TILE_WIDTH - 1), dy \in 0..(TILE_WIDTH - 1)}

\* C18: getCellsNearPoint(p, r) has (2r+1)^2 cells, no two of them equal, and
\* they are the cells (i, j) with |i - c.i| <= r and |j - c.j| <= r for the
\* cell c of p; for r = 0 it is that cell alone.
NeighbourhoodIsSquare ==
    \A radius \in 0..NEIGHBORHOOD_RADIUS : \A point \in PointsOfTile :
        LET cells == getCellsNearPoint(point, radius)
            center == coordinateToCell(point)
        IN  /\ Len(cells) = (2 * radius + 1) * (2 * radius + 1)
            /\ \A a, b \in 1..Len(cells) : cells[a] = cells[b] => a = b
            /\ Range(cells)
                  = {[i |-> i, j |-> j] : i \in (center.i - radius)..(center.i + radius),
                                          j \in (center.j - radius)..(center.j + radius)}
            /\ radius = 0 => cells = <<center>>
            /\ center = [i |-> playerLocation.lat \div TILE_WIDTH,
                          j |-> playerLocation.lng \div TILE_WIDTH]

\* The player has moved to a tile with negative indices, and the rectangles
\* on the map are in cells of the square around it.
NeighbourhoodOfNegativeTile ==
    /\ playerLocation.lat < 0
    /\ playerLocation.lng < 0
    /\ rectangles # EmptyMap
    /\ DOMAIN rectangles \subseteq VisibleCells

\* The globals after a confirmed reset and a reload of the page after it.
ResetThenReload ==
    Then(resetGameState([Globals EXCEPT !.generated = EmptyMap]), LAMBDA g :
        pageLoad(g.localStorage, g.generated))

\* C19: after a confirmed reset and a reload of the page, the inventory is
\* empty, the player is at OAKES_CLASSROOM, the movement history is empty,
\* and every cache on the map has the coins generated for its cell.
ResetIsDurable ==
    Then(ResetThenReload, LAMBDA g :
        /\ g.inventory = <<>>
        /\ g.playerLocation = OAKES_CLASSROOM
        /\ g.movementHistory = <<>>
        /\ \A cell \in DOMAIN g.rectangles :
              g.rectangles[cell].coins
                  = InitialCoins(cell, coinCount(luck(CellKey(cell)
                                                        \o <<"_", "c", "o", "i", "n", "s">>))))

\* C20: after a collect from a cache with coins into an inventory below
\* MAX_INVENTORY_SIZE, a deposit into the same cache gives back the coin list
\* of the cache, the inventory and the snapshot of the cache (in the table
\* and in localStorage) as they were before the collect.
CollectThenDepositIsIdentity ==
    [][\A cell \in DOMAIN rectangles :
          (/\ Len(rectangles[cell].coins) > 0
           /\ Len(inventory) < MAX_INVENTORY_SIZE
           /\ CollectClick(cell))
          => Then(depositCoin(Globals', cell), LAMBDA g :
                 /\ g.rectangles[cell].coins = rectangles[cell].coins
                 /\ g.inventory = inventory
                 /\ g.cacheData[CellKey(cell)] = cacheData[CellKey(cell)]
                 /\ g.localStorage["cacheData"][CellKey(cell)] = cacheData[CellKey(cell)]
                 /\ g.localStorage["inventory"] = inventory)]_vars

\* A coin was collected from a cache of a cell with a negative index: the
\* last id of the inventory decodes into the coin that comes after the coins
\* left in the cache.
CollectedFromNegativeCell ==
    \E cell \in DOMAIN lastCoins \cap DOMAIN rectangles :
        /\ cell.j < 0
        /\ Len(inventory) > 0
        /\ Len(inventory) < MAX_INVENTORY_SIZE
        /\ Append(rectangles[cell].coins, decodeCoin(Last(inventory)))
              = InitialCoins(cell, Len(rectangles[cell].coins) + 1)

\* The snapshot written when the coins of the cell are generated.
InitialMemento(cell) ==
    toMemento(createGeocache(Num(cell.i), Num(cell.j),
        InitialCoins(cell, coinCount(luck(CellKey(cell) \o <<"_", "c", "o", "i", "n", "s">>)))))

\* C21: a step that moves the player (a movement button or a report of the
\* sensor: the new position is appended to the movement history) leaves the inventory and every snapshot of the cache table as
\* they were; a key it adds to the table is the key of a cell now in view
\* that passes the spawn test, with the snapshot of its generated coins; and
\* localStorage holds that inventory and that table.
MoveKeepsCoins ==
    [][movementHistory' = Append(movementHistory, playerLocation')
          => /\ inventory' = inventory
             /\ \A key \in DOMAIN cacheData :
                   key \in DOMAIN cacheData' /\ cacheData'[key] = cacheData[key]
             /\ \A key \in DOMAIN cacheData' \ DOMAIN cacheData :
                   \E cell \in Range(getCellsNearPoint(playerLocation', NEIGHBORHOOD_RADIUS)) :
                       /\ CellKey(cell) = key
                       /\ luck(key) < CACHE_SPAWN_PROBABILITY
                       /\ cacheData'[key] = InitialMemento(cell)
             /\ localStorage'["inventory"] = inventory
             /\ localStorage'["cacheData"] = cacheData']_vars

\* After coins were collected from a cache, one report of the sensor has
\* taken the player to a point inside a tile from which that cache is out of
\* view and another cache, generated by the step, is in view.
MovedAwayWithCoins ==
    /\ Len(movementHistory) = 1
    /\ playerLocation.lat % TILE_WIDTH # 0
    /\ Len(inventory) > 0
    /\ rectangles # EmptyMap
    /\ \E cell \in DOMAIN lastCoins :
          /\ cell \notin DOMAIN rectangles
          /\ cacheData[CellKey(cell)] # InitialMemento(cell)
          /\ MementoCoins(cacheData[CellKey(cell)]) = lastCoins[cell].coins

\* The snapshot parses into a cache whose i and j give the key.
KeyMatchesSnapshot(key, memento) ==
    Then(fromMemento(createGeocache(Num(0), Num(0), <<>>), memento), LAMBDA r :
        /\ ~r.threw
        /\ IsNum(r.cache.i) /\ IsNum(r.cache.j)
        /\ key = IntToStr(r.cache.i.num) \o <<",">> \o IntToStr(r.cache.j.num))

\* C22: each snapshot of the cache table has the i and j of the key it is
\* stored under; a collect or a deposit in the popup of a cell adds no key to
\* the table, leaves the snapshot under every other key as it was, and stores
\* under the key of the cell the snapshot of the cache of the popup, with the
\* i and j of the cell.
SnapshotKeysConsistent ==
    /\ \A key \in DOMAIN cacheData : KeyMatchesSnapshot(key, cacheData[key])
    /\ \A cell \in DOMAIN rectangles :
          PopupOpens(cell)
          => \A g \in {collectCoin(Globals, cell), depositCoin(Globals, cell)} :
                 /\ DOMAIN g.cacheData = DOMAIN cacheData
                 /\ \A key \in DOMAIN cacheData \ {CellKey(cell)} :
                       g.cacheData[key] = cacheData[key]
                 /\ g # Globals
                    => /\ g.cacheData[CellKey(cell)] = toMemento(g.rectangles[cell])
                       /\ KeyMatchesSnapshot(CellKey(cell), g.cacheData[CellKey(cell)])

\* A coin of one cell was deposited into the cache of another cell, whose
\* snapshot holds it, while the table holds the snapshots of both cells.
ForeignCoinInSnapshot ==
    \E cell \in DOMAIN lastCoins \cap DOMAIN rectangles :
        /\ Cardinality(DOMAIN cacheData) >= 2
        /\ cacheData[CellKey(cell)] = toMemento(rectangles[cell])
        /\ \E n \in 1..Len(rectangles[cell].coins) :
              rectangles[cell].coins[n].j # Num(cell.j)
\* The ids of the coins of the snapshots of a stored cache table.
StoredCoinIds(table) ==
    UNION {{formatCoin(coin) : coin \in Range(MementoCoins(table[key]))} :
              key \in DOMAIN table}

\* No collect is undone by a save of the other tab: no coin a tab holds in
\* its inventory is in a snapshot of the cache table of localStorage.
NoCollectUndone ==
    \A tab \in {TabGlobals(Globals)} \cup Range(otherTab) :
        Range(tab.inventory) \cap StoredCoinIds(localStorage["cacheData"]) = {}

\* No coin is in the inventories of both tabs.
NoCoinInBothSessions ==
    \A tab \in Range(otherTab) : Range(inventory) \cap Range(tab.inventory) = {}

\* C23: with two tabs on one localStorage, the restore, change and save of a
\* snapshot is a critical section per key: a collect or a deposit in one tab
\* is not undone by a save of the other tab, and no coin is in the
\* inventories of both tabs.
CriticalSectionPerKey ==
    /\ NoCollectUndone
    /\ NoCoinInBothSessions

====
